---- MODULE Spec2Model ----
(***************************************************************************)
(* download_SMAP.py: for every (year, month, day) of the configured        *)
(* ranges, build an Earth Engine image for the date, reduce it over the    *)
(* grid, fetch the features, turn the -9999 fill value back into NaN,      *)
(* concatenate each band over the features and save one .npy file per      *)
(* band.  Any exception of an iteration is printed and the loop goes on.   *)
(*                                                                         *)
(* The script is sequential: the state is its module-level variables, its  *)
(* position, the output directory and what it printed.                     *)
(***************************************************************************)
EXTENDS Integers, Sequences, FiniteSets, TLC

VARIABLES
    years, months, days,   \* the configured ranges (lines 26-28), as sequences
    dataset,               \* the remote collection: valid date -> 'features' of the response
    yi, mi, di,            \* positions of the three nested for loops
    pc,                    \* "create" | "getInfo" | "fill" | "save" | "end" | "done"
    bi,                    \* position of the save loop in final_bands
    image,                 \* the ee.Image built for the current date (its date)
    features,              \* extracted_data.getInfo()['features']
    concatenated_data,     \* band -> list of values
    disk,                  \* path -> file
    out,                   \* what the process printed, line by line
    trace,                 \* the dates whose iteration has started, in order
    rerun,                 \* TRUE in the second execution of the script
    before,                \* the directory when this execution started
    firstOut               \* what the first execution printed

vars == <<years, months, days, dataset, yi, mi, di, pc, bi, image, features,
          concatenated_data, disk, out, trace, rerun, before, firstOut>>

----------------------------------------------------------------------------
(* Bounds of the model *)

\* most features (grid cells) in one response of the exhaustive inputs
MaxFeatures == 2

----------------------------------------------------------------------------
(* Constants of the script *)

\* the fill value of unmask() and of the np.where() test
Sentinel == -9999

final_bands == <<"sm_surface", "sm_rootzone">>

Bands == {final_bands[i] : i \in 1..Len(final_bands)}

\* a float cell of a NumPy array: a number or NaN
NaN == [nan |-> TRUE, val |-> 0]
Num(v) == [nan |-> FALSE, val |-> v]

----------------------------------------------------------------------------
(* datetime.date(year, month, day): ValueError unless the date exists *)

IsLeap(y) == (y % 4 = 0) /\ ((y % 100 # 0) \/ (y % 400 = 0))

DaysInMonth(y, m) ==
    IF m = 2 THEN (IF IsLeap(y) THEN 29 ELSE 28)
    ELSE IF m \in {4, 6, 9, 11} THEN 30 ELSE 31

ValidDate(d) ==
    /\ d[1] \in 1..9999
    /\ d[2] \in 1..12
    /\ d[3] \in 1..DaysInMonth(d[1], d[2])

----------------------------------------------------------------------------
(* The filename template of line 103 *)

Digit(n) == <<"0", "1", "2", "3", "4", "5", "6", "7", "8", "9">>[n + 1]

\* str(n) of a non-negative integer, a sequence of characters
RECURSIVE Str(_)
Str(n) == IF n < 10 THEN <<Digit(n)>> ELSE Str(n \div 10) \o <<Digit(n % 10)>>

\* format(n, '02d')
Pad2(n) == IF n < 10 THEN <<"0">> \o Str(n) ELSE Str(n)

\* A faulty variant: the band left out of the template
FilenameWithoutBand(year, month, day, band) ==
    <<"/home/olivia/Flash_Droughts_Wildfires/SMAP_GEE/data/processed_">>
        \o Str(year) \o <<"_">> \o Pad2(month) \o <<"_">> \o Pad2(day)
        \o <<"_array.npy">>

Filename(year, month, day, band) ==
    <<"/home/olivia/Flash_Droughts_Wildfires/SMAP_GEE/data/processed_">>
        \o Str(year) \o <<"_">> \o Pad2(month) \o <<"_">> \o Pad2(day)
        \o <<"_">> \o <<band>> \o <<"_array.npy">>

----------------------------------------------------------------------------
(* Lines 94-98: the feature / band loops *)

\* dict.get(band, [])
Get(properties, band) ==
    IF band \in DOMAIN properties THEN properties[band]
    ELSE [kind |-> "list", v |-> <<>>]

\* A faulty variant: the values become floats and the fill value is kept
WhereKeepsFill(data) == [i \in 1..Len(data) |-> Num(data[i])]

\* np.where(data == -9999, np.nan, data) on a 1-d array
Where(data) ==
    [i \in 1..Len(data) |-> IF data[i] = Sentinel THEN NaN ELSE Num(data[i])]

\* One feature, the bands from b on.  st is [data, ok]: the lists so far,
\* and whether no exception was raised.  list.extend of a 0-d array (the
\* property was a number, not a list) raises TypeError and leaves the lists
\* as they are.
RECURSIVE FillBands(_, _, _)
FillBands(st, feature, b) ==
    IF b > Len(final_bands) THEN st
    ELSE LET band == final_bands[b]
             prop == Get(feature.properties, band)
         IN  IF prop.kind # "list"
             THEN [st EXCEPT !.ok = FALSE]
             ELSE FillBands([st EXCEPT !.data[band] = @ \o Where(prop.v)],
                            feature, b + 1)

\* A faulty variant: the features are taken from the last to the first
RECURSIVE FillFeaturesBackwards(_, _, _)
FillFeaturesBackwards(st, fs, k) ==
    IF k > Len(fs) \/ ~st.ok THEN st
    ELSE FillFeaturesBackwards(FillBands(st, fs[Len(fs) + 1 - k], 1), fs, k + 1)

\* The features from k on, stopping at the first exception
RECURSIVE FillFeatures(_, _, _)
FillFeatures(st, fs, k) ==
    IF k > Len(fs) \/ ~st.ok THEN st
    ELSE FillFeatures(FillBands(st, fs[k], 1), fs, k + 1)

\* line 91
EmptyLists == [band \in Bands |-> <<>>]

\* A faulty variant: the lists are not created anew (line 91 left out)
FillLoopAccumulates(fs) ==
    FillFeatures([data |-> concatenated_data, ok |-> TRUE], fs, 1)

FillLoop(fs) == FillFeatures([data |-> EmptyLists, ok |-> TRUE], fs, 1)

----------------------------------------------------------------------------
(* Lines 102-104: the array and its file *)

\* A faulty variant: the array is saved flat, without reshape(-1, 1)
ReshapeLeftOut(list) == [kind |-> "npy", shape |-> <<Len(list)>>, data |-> list]

\* np.array(list).reshape(-1, 1): one column, as many rows as the size
Reshape(list) == [kind |-> "npy", shape |-> <<Len(list), 1>>, data |-> list]

Absent == [kind |-> "absent", shape |-> <<>>, data |-> <<>>]
\* a file left by an earlier execution against another dataset
Stale == [kind |-> "stale", shape |-> <<>>, data |-> <<>>]
\* a file np.save opened and could not finish writing
Partial == [kind |-> "partial", shape |-> <<>>, data |-> <<>>]

\* A faulty variant: the array is added to the rows the file already holds
SaveAppends(old, array) ==
    IF old.kind = "npy"
    THEN [kind |-> "npy", shape |-> <<old.shape[1] + array.shape[1], 1>>,
          data |-> old.data \o array.data]
    ELSE array

\* np.save(filename, array) opens the file for writing: what it held is gone
Save(old, array) == array

\* A faulty variant: the save loop takes the bands from the last to the first
BandAtReversed(i) == final_bands[Len(final_bands) + 1 - i]

\* the band of the i-th pass of 'for band in final_bands'
BandAt(i) == final_bands[i]

----------------------------------------------------------------------------
(* The loops *)

Date == <<years[yi], months[mi], days[di]>>

AllDates == {<<years[i], months[j], days[k]>> :
                i \in 1..Len(years), j \in 1..Len(months), k \in 1..Len(days)}

AllPaths == {Filename(d[1], d[2], d[3], b) : d \in AllDates, b \in Bands}

\* A faulty variant: the loops nested the other way round, the year innermost
AdvanceYearInnermost ==
    IF yi < Len(years) THEN yi' = yi + 1 /\ UNCHANGED <<mi, di>> /\ pc' = "create"
    ELSE IF mi < Len(months)
         THEN yi' = 1 /\ mi' = mi + 1 /\ UNCHANGED di /\ pc' = "create"
    ELSE IF di < Len(days)
         THEN yi' = 1 /\ mi' = 1 /\ di' = di + 1 /\ pc' = "create"
    ELSE UNCHANGED <<yi, mi, di>> /\ pc' = "end"

\* The next iteration of the nested for loops, or the end of the script
Advance ==
    IF di < Len(days) THEN di' = di + 1 /\ UNCHANGED <<yi, mi>> /\ pc' = "create"
    ELSE IF mi < Len(months)
         THEN di' = 1 /\ mi' = mi + 1 /\ UNCHANGED yi /\ pc' = "create"
    ELSE IF yi < Len(years)
         THEN di' = 1 /\ mi' = 1 /\ yi' = yi + 1 /\ pc' = "create"
    ELSE UNCHANGED <<yi, mi, di>> /\ pc' = "end"

ErrorLine(d, e) == [kind |-> "error", date |-> d, msg |-> e, path |-> <<>>, shape |-> <<>>]
SavedLine(p, s) == [kind |-> "saved", date |-> <<>>, msg |-> "", path |-> p, shape |-> s]
TimeLine == [kind |-> "time", date |-> <<>>, msg |-> "", path |-> <<>>, shape |-> <<>>]

\* A faulty variant: no try/except in the loop body, the exception ends the loops
ExceptEndsLoop(e) ==
    /\ out' = Append(out, ErrorLine(Date, e))
    /\ bi' = 1
    /\ UNCHANGED <<yi, mi, di>>
    /\ pc' = "end"

\* lines 107-109: the except clause, then the next iteration
Except(e) ==
    /\ out' = Append(out, ErrorLine(Date, e))
    /\ bi' = 1
    /\ Advance

\* line 78: create_image(year, month, day, selected_bands)
CreateImage ==
    /\ pc = "create"
    /\ trace' = Append(trace, Date)
    /\ UNCHANGED <<years, months, days, dataset, features, concatenated_data,
                   disk, rerun, before, firstOut>>
    /\ IF ~ValidDate(Date)
       THEN /\ Except("day is out of range for month")
            /\ UNCHANGED image
       ELSE \/ /\ image' = Date
               /\ pc' = "getInfo"
               /\ UNCHANGED <<yi, mi, di, bi, out>>
            \/ /\ Except("EEException: image")
               /\ UNCHANGED image

\* lines 79-90: the reduction over the grid and getInfo()
GetInfo ==
    /\ pc = "getInfo"
    /\ UNCHANGED <<years, months, days, dataset, image, concatenated_data,
                   disk, trace, rerun, before, firstOut>>
    /\ \/ /\ features' = dataset[image]
          /\ pc' = "fill"
          /\ UNCHANGED <<yi, mi, di, bi, out>>
       \/ /\ Except("EEException: getInfo")
          /\ UNCHANGED features

\* lines 91-98
Fill ==
    /\ pc = "fill"
    /\ UNCHANGED <<years, months, days, dataset, image, features, disk,
                   trace, rerun, before, firstOut>>
    /\ LET st == FillLoop(features)
       IN  /\ concatenated_data' = st.data
           /\ IF st.ok
              THEN /\ pc' = "save"
                   /\ bi' = 1
                   /\ UNCHANGED <<yi, mi, di, out>>
              ELSE Except("TypeError: iteration over a 0-d array")

\* lines 101-105, one band
SaveBand ==
    /\ pc = "save"
    /\ UNCHANGED <<years, months, days, dataset, image, features,
                   concatenated_data, trace, rerun, before, firstOut>>
    /\ LET band == BandAt(bi)
           final_band_array == Reshape(concatenated_data[band])
           filename == Filename(years[yi], months[mi], days[di], band)
       IN  \/ /\ disk' = [disk EXCEPT ![filename] = Save(@, final_band_array)]
              /\ out' = Append(out, SavedLine(filename, final_band_array.shape))
              /\ IF bi < Len(final_bands)
                 THEN bi' = bi + 1 /\ UNCHANGED <<yi, mi, di, pc>>
                 ELSE bi' = 1 /\ Advance
           \/ \* np.save cannot open the file
              /\ UNCHANGED disk
              /\ Except("OSError: open")
           \/ \* np.save opens the file and fails writing it
              /\ disk' = [disk EXCEPT ![filename] = Partial]
              /\ Except("OSError: write")

\* lines 112-115
Finish ==
    /\ pc = "end"
    /\ pc' = "done"
    /\ out' = Append(out, TimeLine)
    /\ UNCHANGED <<years, months, days, dataset, yi, mi, di, bi, image,
                   features, concatenated_data, disk, trace, rerun, before, firstOut>>

\* The script is run again: a new process, the same directory and dataset
Rerun ==
    /\ pc = "done"
    /\ ~rerun
    /\ rerun' = TRUE
    /\ before' = disk
    /\ firstOut' = out
    /\ yi' = 1 /\ mi' = 1 /\ di' = 1 /\ bi' = 1
    /\ pc' = "create"
    /\ image' = <<>>
    /\ features' = <<>>
    /\ concatenated_data' = EmptyLists
    /\ out' = <<>>
    /\ trace' = <<>>
    /\ UNCHANGED <<years, months, days, dataset, disk>>

----------------------------------------------------------------------------
(* Inputs *)

List(v) == [kind |-> "list", v |-> v]
Number(n) == [kind |-> "number", v |-> <<n>>]

\* Responses of the runs over several dates: no feature; one feature with
\* both bands; a feature without sm_rootzone; two features, the second with
\* a number where a list is expected
SampleResponses ==
    { <<>>,
      << [properties |-> [sm_surface |-> List(<<1, Sentinel>>),
                          sm_rootzone |-> List(<<2, 1>>)]] >>,
      << [properties |-> [sm_surface |-> List(<<Sentinel>>),
                          sm_rootzone |-> List(<<3>>)]],
         [properties |-> [sm_surface |-> List(<<4>>)]] >>,
      << [properties |-> [sm_surface |-> List(<<5>>),
                          sm_rootzone |-> List(<<Sentinel>>)]],
         [properties |-> [sm_surface |-> List(<<6>>),
                          sm_rootzone |-> Number(7)]] >> }

\* the value lists of the exhaustive inputs: empty, only the fill value,
\* a value before the fill value, a value alone
ValueLists == {<<>>, <<Sentinel>>, <<1, Sentinel>>, <<2>>}

\* every properties dict with some of the bands, each a list
AllProperties ==
    UNION {[S -> {List(v) : v \in ValueLists}] : S \in SUBSET Bands}

AllFeatures == {[properties |-> p] : p \in AllProperties}

\* every response of at most MaxFeatures features
AllResponses == UNION {[1..n -> AllFeatures] : n \in 0..MaxFeatures}

InitWith(ys, ms, ds, responses, disks) ==
    /\ years = ys /\ months = ms /\ days = ds
    /\ dataset \in [{d \in AllDates : ValidDate(d)} -> responses]
    /\ yi = 1 /\ mi = 1 /\ di = 1 /\ bi = 1
    /\ pc = "create"
    /\ image = <<>>
    /\ features = <<>>
    /\ concatenated_data = EmptyLists
    /\ disk \in {[p \in AllPaths |-> f] : f \in disks}
    /\ out = <<>>
    /\ trace = <<>>
    /\ rerun = FALSE
    /\ before = disk
    /\ firstOut = <<>>

\* 28 and 29 February of a common and of a leap year
Init == InitWith(<<2015, 2016>>, <<2>>, <<28, 29>>, SampleResponses, {Absent, Stale})

\* one date, every response
InitArrays == InitWith(<<2016>>, <<1>>, <<1>>, AllResponses, {Absent})

\* 28, 29 and 30 February of a leap year, run twice
InitRerun == InitWith(<<2016>>, <<2>>, <<28, 29, 30>>, SampleResponses, {Absent, Stale})

Next == CreateImage \/ GetInfo \/ Fill \/ SaveBand \/ Finish

NextRerun == Next \/ Rerun

Spec == Init /\ [][Next]_vars

SpecArrays == InitArrays /\ [][Next]_vars

SpecRerun == InitRerun /\ [][NextRerun]_vars
----------------------------------------------------------------------------
(* Reading the output and the directory *)

PathOf(d, b) == Filename(d[1], d[2], d[3], b)

\* the positions of the error lines of date d in output o
ErrorsOf(o, d) == {i \in 1..Len(o) : o[i].kind = "error" /\ o[i].date = d}

\* the positions of the "Saved:" lines of path p in output o
SavesOf(o, p) == {i \in 1..Len(o) : o[i].kind = "saved" /\ o[i].path = p}

\* the iteration of date d saved every band
Succeeded(o, d) == \A b \in Bands : SavesOf(o, PathOf(d, b)) # {}

\* the iterations that are over are the first IterationsOver dates of trace
IterationsOver ==
    IF pc \in {"getInfo", "fill", "save"} THEN Len(trace) - 1 ELSE Len(trace)

\* date a comes before date b: by year, then by month, then by day
Earlier(a, b) ==
    \/ a[1] < b[1]
    \/ a[1] = b[1] /\ a[2] < b[2]
    \/ a[1] = b[1] /\ a[2] = b[2] /\ a[3] < b[3]

\* the date a line of the output is about
LineDate(l) ==
    IF l.kind = "error" THEN l.date
    ELSE CHOOSE d \in AllDates : \E b \in Bands : l.path = PathOf(d, b)

----------------------------------------------------------------------------
(* C1: an invalid calendar date, and more generally a failed iteration, is *)
(* skipped: nothing is saved for an invalid date, exactly one error line   *)
(* naming the date and carrying the exception's message is printed for an  *)
(* iteration that did not save every band, and the script only ends after  *)
(* every date of the ranges has been attempted.                            *)
C1_FailedDateSkippedAndLogged ==
    /\ \A i \in 1..Len(trace) :
         LET d == trace[i]
         IN  ~ValidDate(d) =>
               /\ Cardinality(ErrorsOf(out, d)) = 1
               /\ \A b \in Bands :
                    /\ SavesOf(out, PathOf(d, b)) = {}
                    /\ disk[PathOf(d, b)] = before[PathOf(d, b)]
    /\ \A i \in 1..IterationsOver :
         LET d == trace[i]
         IN  \/ Succeeded(out, d) /\ ErrorsOf(out, d) = {}
             \/ /\ ~Succeeded(out, d)
                /\ Cardinality(ErrorsOf(out, d)) = 1
                /\ \A k \in ErrorsOf(out, d) : out[k].msg # ""
    /\ pc \in {"end", "done"} => {trace[i] : i \in 1..Len(trace)} = AllDates

\* 29 February 2015 failed and a later date was saved
C1_Witness ==
    \E i, j \in 1..Len(out) :
        /\ i < j
        /\ out[i].kind = "error" /\ ~ValidDate(out[i].date)
        /\ out[j].kind = "saved"

----------------------------------------------------------------------------
(* C6: the dates are attempted once each, in ascending (year, month, day)  *)
(* order with none left out; all the output of a date comes before the     *)
(* output of the next, an error line is the last line of its date (no      *)
(* retry); the script cannot stop before the end, and it ends with the     *)
(* elapsed-time line, printed once, after every date was attempted.        *)
C6_EveryDateOnceInOrder ==
    /\ \A i, j \in 1..Len(trace) : i < j => Earlier(trace[i], trace[j])
    /\ \A d \in AllDates :
         (\E i \in 1..Len(trace) : trace[i] = d)
           <=> (trace # <<>> /\ ~Earlier(trace[Len(trace)], d))
    /\ \A i \in 1..IterationsOver :
         Succeeded(out, trace[i]) \/ ErrorsOf(out, trace[i]) # {}
    /\ IterationsOver < Len(trace) =>
         ~Succeeded(out, trace[Len(trace)]) /\ ErrorsOf(out, trace[Len(trace)]) = {}
    /\ \A j \in 2..Len(out) :
         out[j].kind # "time" =>
           /\ out[j - 1].kind # "time"
           /\ ~Earlier(LineDate(out[j]), LineDate(out[j - 1]))
           /\ out[j - 1].kind = "error" =>
                Earlier(LineDate(out[j - 1]), LineDate(out[j]))
    /\ \A i \in 1..Len(out) : out[i].kind = "time" => i = Len(out) /\ pc = "done"
    /\ pc = "done" =>
         /\ {trace[i] : i \in 1..Len(trace)} = AllDates
         /\ out # <<>> /\ out[Len(out)].kind = "time"
    /\ pc = "done" \/ ENABLED Next

\* the script ended after four dates, one failed and one saved
C6_Witness ==
    /\ pc = "done"
    /\ Len(trace) = 4
    /\ \E i, j \in 1..Len(out) : out[i].kind = "error" /\ out[j].kind = "saved" /\ i < j
----------------------------------------------------------------------------
(* C3: a date whose iteration succeeds has exactly one "Saved:" line, and  *)
(* one array file, for each band; no path is written twice in a run; and   *)
(* different keys (year, month, day, band) have different paths, for the   *)
(* configured dates and for every day of every month of the configured     *)
(* years.                                                                  *)
CalendarKeys ==
    {<<years[i], m, d>> : i \in 1..Len(years), m \in 1..12, d \in 1..31} \X Bands

C3_OneFilePerDateAndBand ==
    /\ \A i \in 1..Len(trace) :
         Succeeded(out, trace[i]) =>
           \A b \in Bands :
             /\ Cardinality(SavesOf(out, PathOf(trace[i], b))) = 1
             /\ disk[PathOf(trace[i], b)].kind = "npy"
    /\ \A i, j \in 1..Len(out) :
         (i < j /\ out[i].kind = "saved" /\ out[j].kind = "saved") =>
           out[i].path # out[j].path
    /\ \A i \in 1..Len(out) :
         out[i].kind = "saved" =>
           /\ disk[out[i].path].kind = "npy"
           /\ disk[out[i].path].shape = out[i].shape
    /\ Cardinality(AllPaths) = Cardinality(AllDates \X Bands)
    /\ trace = <<>> =>
         Cardinality({PathOf(k[1], k[2]) : k \in CalendarKeys})
           = Cardinality(CalendarKeys)

\* two dates succeeded: four files
C3_Witness ==
    \E i, j \in 1..Len(trace) :
        /\ i < j
        /\ Succeeded(out, trace[i]) /\ Succeeded(out, trace[j])
        /\ Cardinality({p \in AllPaths : disk[p].kind = "npy"}) = 2 * Len(final_bands)

----------------------------------------------------------------------------
(* The array a response determines for a band *)

\* the raw values of the band in a feature: none when the key is missing
RawOf(feature, band) ==
    IF band \in DOMAIN feature.properties THEN feature.properties[band].v ELSE <<>>

\* the raw values of the band in the first k features, in order
RECURSIVE RawCells(_, _, _)
RawCells(fs, band, k) ==
    IF k = 0 THEN <<>> ELSE RawCells(fs, band, k - 1) \o RawOf(fs[k], band)

Cell(v) == IF v = Sentinel THEN NaN ELSE Num(v)

Expected(fs, band) ==
    LET raw == RawCells(fs, band, Len(fs))
    IN  [i \in 1..Len(raw) |-> Cell(raw[i])]

----------------------------------------------------------------------------
(* C8: the lists that are saved, and every array saved in this run, hold   *)
(* the values of the response of their own date and nothing else, whatever *)
(* the earlier iterations left in the lists.                               *)
C8_NoAccumulationAcrossDates ==
    /\ pc = "save" =>
         \A b \in Bands : concatenated_data[b] = Expected(dataset[Date], b)
    /\ \A d \in DOMAIN dataset : \A b \in Bands :
         SavesOf(out, PathOf(d, b)) # {} =>
           disk[PathOf(d, b)].data = Expected(dataset[d], b)

\* an iteration failed in the fill loop with values in its lists, and a
\* later date saved a non-empty array
C8_Witness ==
    /\ \E i, j \in 1..Len(out) :
         /\ i < j
         /\ out[i].kind = "error"
         /\ out[i].msg = "TypeError: iteration over a 0-d array"
         /\ out[j].kind = "saved" /\ out[j].shape[1] > 0
    /\ pc = "done"

----------------------------------------------------------------------------
(* C10 as claimed: an iteration that is over either saved every band or    *)
(* ended in the error handler without writing or changing a file of its    *)
(* date.                                                                   *)
C10_AllOrNothing ==
    \A i \in 1..IterationsOver :
      LET d == trace[i]
      IN  \/ \A b \in Bands :
               SavesOf(out, PathOf(d, b)) # {} /\ disk[PathOf(d, b)].kind = "npy"
          \/ /\ ErrorsOf(out, d) # {}
             /\ \A b \in Bands :
                  /\ SavesOf(out, PathOf(d, b)) = {}
                  /\ disk[PathOf(d, b)] = before[PathOf(d, b)]

(* C10 amended: an iteration that is over either saved every band, or      *)
(* ended in the error handler with complete files written for a leading    *)
(* part of final_bands only: none when the failure came before the save    *)
(* loop; the file of the band whose save failed is untouched or left       *)
(* incompletely written, and the files of the later bands are untouched.   *)
SaveErrors == {"OSError: open", "OSError: write"}

C10_SavedBandsAreAPrefix ==
    \A i \in 1..IterationsOver :
      LET d == trace[i]
          n == Cardinality({b \in Bands : SavesOf(out, PathOf(d, b)) # {}})
      IN  \/ /\ ErrorsOf(out, d) = {}
             /\ \A b \in Bands :
                  SavesOf(out, PathOf(d, b)) # {} /\ disk[PathOf(d, b)].kind = "npy"
          \/ /\ ErrorsOf(out, d) # {}
             /\ n < Len(final_bands)
             /\ \A e \in ErrorsOf(out, d) : out[e].msg \notin SaveErrors => n = 0
             /\ \A e \in ErrorsOf(out, d) :
                  out[e].msg \notin SaveErrors =>
                    disk[PathOf(d, final_bands[1])] = before[PathOf(d, final_bands[1])]
             /\ \A k \in 1..Len(final_bands) :
                  LET p == PathOf(d, final_bands[k])
                  IN  /\ k <= n => SavesOf(out, p) # {} /\ disk[p].kind = "npy"
                      /\ k = n + 1 => SavesOf(out, p) = {} /\ disk[p] \in {before[p], Partial}
                      /\ k > n + 1 => SavesOf(out, p) = {} /\ disk[p] = before[p]

\* an iteration saved sm_surface and failed saving sm_rootzone
C10_Witness ==
    \E i \in 1..IterationsOver :
        /\ ErrorsOf(out, trace[i]) # {}
        /\ SavesOf(out, PathOf(trace[i], final_bands[1])) # {}
        /\ SavesOf(out, PathOf(trace[i], final_bands[2])) = {}
----------------------------------------------------------------------------
(* Sums over the features of a response *)

\* the number of raw values of the band in the first k features
RECURSIVE CellsBefore(_, _, _)
CellsBefore(fs, band, k) ==
    IF k = 0 THEN 0 ELSE CellsBefore(fs, band, k - 1) + Len(RawOf(fs[k], band))

\* the array files of this run: date, band and file
SavedArrays ==
    {<<d, b>> \in (DOMAIN dataset) \X Bands :
        SavesOf(out, PathOf(d, b)) # {} /\ disk[PathOf(d, b)].kind = "npy"}

----------------------------------------------------------------------------
(* C2: no cell of a saved array is the fill value -9999; a cell is NaN     *)
(* exactly where the raw list of the response held -9999, and is the raw   *)
(* value everywhere else.                                                  *)
C2_SentinelBecomesNaN ==
    \A k \in SavedArrays :
      LET data == disk[PathOf(k[1], k[2])].data
          fs == dataset[k[1]]
          raw == RawCells(fs, k[2], Len(fs))
      IN  /\ Len(data) = Len(raw)
          /\ \A i \in 1..Len(data) :
               /\ ~(data[i].nan = FALSE /\ data[i].val = Sentinel)
               /\ raw[i] = Sentinel => data[i].nan
               /\ raw[i] # Sentinel => ~data[i].nan /\ data[i].val = raw[i]

\* a saved array with a NaN where the response held -9999, next to a value
C2_Witness ==
    \E k \in SavedArrays :
      LET data == disk[PathOf(k[1], k[2])].data
          raw == RawCells(dataset[k[1]], k[2], Len(dataset[k[1]]))
      IN  \E i, j \in 1..Len(data) :
            raw[i] = Sentinel /\ data[i].nan /\ ~data[j].nan

----------------------------------------------------------------------------
(* C4: every array that is saved, and every shape that is printed, is      *)
(* (N, 1) with N >= 0 the number of values: two dimensions, one column.    *)
C4_ShapeIsOneColumn ==
    /\ \A p \in AllPaths :
         disk[p].kind = "npy" =>
           /\ Len(disk[p].shape) = 2
           /\ disk[p].shape[2] = 1
           /\ disk[p].shape[1] >= 0
           /\ disk[p].shape[1] = Len(disk[p].data)
    /\ \A i \in 1..Len(out) :
         out[i].kind = "saved" =>
           Len(out[i].shape) = 2 /\ out[i].shape[2] = 1 /\ out[i].shape[1] >= 0

\* a response without features, saved as arrays of shape (0, 1)
C4_Witness ==
    \E k \in SavedArrays :
        /\ dataset[k[1]] = <<>>
        /\ disk[PathOf(k[1], k[2])].shape = <<0, 1>>
        /\ pc = "done"

----------------------------------------------------------------------------
(* C7: the saved array of a band is the concatenation of the band's lists  *)
(* in the order of the features: its length is the sum of the lengths of   *)
(* the lists, the j-th value of feature f is at row (values of the         *)
(* features before f) + j, NaN for -9999, and a feature without the band   *)
(* takes no row.                                                           *)
C7_ConcatenationInFeatureOrder ==
    \A k \in SavedArrays :
      LET band == k[2]
          data == disk[PathOf(k[1], band)].data
          fs == dataset[k[1]]
      IN  /\ Len(data) = CellsBefore(fs, band, Len(fs))
          /\ disk[PathOf(k[1], band)].shape[1] = CellsBefore(fs, band, Len(fs))
          /\ \A f \in 1..Len(fs) :
               /\ band \notin DOMAIN fs[f].properties =>
                    CellsBefore(fs, band, f) = CellsBefore(fs, band, f - 1)
               /\ band \in DOMAIN fs[f].properties =>
                    \A j \in 1..Len(fs[f].properties[band].v) :
                      data[CellsBefore(fs, band, f - 1) + j]
                        = Cell(fs[f].properties[band].v[j])

\* two features with different values of the band, the first of them
\* without the other band: an array of three rows
C7_Witness ==
    \E k \in SavedArrays :
      LET fs == dataset[k[1]]
      IN  /\ Len(fs) = 2
          /\ k[2] \in DOMAIN fs[1].properties /\ k[2] \in DOMAIN fs[2].properties
          /\ fs[1].properties[k[2]].v = <<1, Sentinel>>
          /\ fs[2].properties[k[2]].v = <<2>>
          /\ \E b \in Bands : b \notin DOMAIN fs[1].properties
          /\ Len(disk[PathOf(k[1], k[2])].data) = 3

----------------------------------------------------------------------------
(* C9 as claimed: the arrays saved for the bands of one date have the same *)
(* number of rows.                                                         *)
C9_BandsHaveTheSameLength ==
    \A d \in DOMAIN dataset :
      Succeeded(out, d) =>
        \A b1, b2 \in Bands :
          disk[PathOf(d, b1)].shape[1] = disk[PathOf(d, b2)].shape[1]
----------------------------------------------------------------------------
====
